---- MODULE Spec2Model ----
(***************************************************************************)
(* Model of config/tools/nix-store-clumpgc.py: retention planning for      *)
(* NixOS system generations.                                               *)
(*                                                                         *)
(* Timestamps are whole seconds counted from 2025-01-01T00:00:00Z, the     *)
(* resolution of `nix-env --list-generations`.  Floating point values are  *)
(* kept in fixed point: normalised features and the Gaussian weight in     *)
(* thousandths, scores in thousandths, densities in millionths.            *)
(* The grid, which the code indexes from 0, is a function on 0..n-1.        *)
(***************************************************************************)
EXTENDS Integers, Sequences, FiniteSets, TLC

VARIABLES
    pc,            \* position of the run in main
    args,          \* command line: [apply, dry_run]
    gens,          \* list_generations(): [id, ts] ascending by ts
    deltas,        \* raw feature deltas of each generation: [lines, paths]
    cur, prev,     \* booted_generations()
    file0,         \* the state file as the run found it
    file,          \* the state file
    state,         \* the state document in memory
    score,         \* score of each generation
    grid,          \* kernel_smooth(points)
    keep, reasons, \* the keep set and the reasons dict
    stretches,     \* anchors visited and stretches kept by the 3-10 day scan
    windows,       \* windows returned by select_integral_windows
    plan_delete,   \* the sorted delete list
    delete_calls,  \* calls of nix-env --delete-generations: [ids, rc]
    selArgs,       \* arguments of a direct call of select_integral_windows
    selected       \* `selected` of select_integral_windows: index pairs <<i, j>>

vars == <<pc, args, gens, deltas, cur, prev, file0, file, state, score, grid,
          keep, reasons, stretches, windows, plan_delete, delete_calls,
          selArgs, selected>>

(***************************************************************************)
(* Units and program constants                                             *)
(***************************************************************************)
HOUR == 3600
DAY == 86400

\* Python's None, for an id, an index or a value not yet computed.
None == -1

\* guard of +/- 12 grid hours masked around a selected window
GuardHours == 12

\* select_integral_windows(grid_tail, min_days=5, max_days=10, min_area=0.0)
ClumpMinDays == 5
ClumpMaxDays == 10

\* tier limits, in days
RecentDays == 3
DailyDays == 10
MonthlyDays == 90

\* productive stretch: span >= 36 h with mean inter-arrival <= 12 h,
\* middle keep nearest to first + 24 h
StretchSpanHours == 36
StretchMeanHours == 12
StretchMidHours == 24

\* rebuild event weight 0.1, and the weights 0.5 and 0.4, in thousandths
BaseScore == 100
LinesWeight == 500
PathsWeight == 400

(***************************************************************************)
(* Small helpers                                                           *)
(***************************************************************************)
Min(S) == CHOOSE x \in S : \A y \in S : x <= y
Max(S) == CHOOSE x \in S : \A y \in S : x >= y
Abs(x) == IF x < 0 THEN -x ELSE x

\* number of entries of a 0-based list
Size(f) == Cardinality(DOMAIN f)

\* f itself; the comparison makes TLC tabulate a function that is
\* given by a rule, so that later reads do not evaluate the rule again
Tabulated(f) == IF f = f THEN f ELSE f

\* sum of a sequence of integers, by halves (the depth stays logarithmic)
RECURSIVE SumSeq(_, _, _)
SumSeq(s, lo, hi) ==
    IF lo > hi THEN 0
    ELSE IF lo = hi THEN s[lo]
    ELSE LET mid == (lo + hi) \div 2
         IN SumSeq(s, lo, mid) + SumSeq(s, mid + 1, hi)

\* sorted(S) for a set of integers, ascending
RECURSIVE SortedSeq(_)
SortedSeq(S) ==
    IF S = {} THEN <<>>
    ELSE LET m == Min(S) IN <<m>> \o SortedSeq(S \ {m})

(***************************************************************************)
(* select_integral_windows                                                 *)
(***************************************************************************)
\* running sums vals[lo], vals[lo]+vals[lo+1], ... up to hi, as a sequence;
\* built by halves, the values are those of the loop `pref.append(pref[-1]+v)`
RECURSIVE RunningSums(_, _, _)
RunningSums(vals, lo, hi) ==
    IF lo = hi THEN <<vals[lo]>>
    ELSE LET mid == (lo + hi) \div 2
             L == RunningSums(vals, lo, mid)
             R == RunningSums(vals, mid + 1, hi)
         IN L \o [k \in 1..Len(R) |-> R[k] + L[Len(L)]]

\* pref[0] = 0, pref[k] = vals[0] + ... + vals[k-1]
PrefixSums(g) ==
    LET n == Size(g)
        rs == IF n = 0 THEN <<>> ELSE RunningSums([k \in 0..(n - 1) |-> g[k].v], 0, n - 1)
    IN Tabulated([k \in 0..n |-> IF k = 0 THEN 0 ELSE rs[k]])

\* first_unused(): the least index not yet used, or None.  The scan starts
\* at `from`, the index found by the call before: entries are only ever set,
\* so every index below it is still used.
first_unused(used, from) ==
    LET rest == from..(Size(used) - 1)
    IN IF \A k \in rest : used[k] THEN None
       ELSE CHOOSE k \in rest : ~used[k] /\ \A m \in from..(k - 1) : used[m]

\* the inner `for L in range(HMIN, HMAX+1)` loop at i0 over the lengths
\* lo..hi, by halves: the lengths that reach min_area are the candidates; a
\* later length replaces the best so far only when its area is strictly
\* greater (`if not best or a > best[2]`).  <<>> for no best.
RECURSIVE BestWindow(_, _, _, _, _, _)
BestWindow(pref, n, i0, lo, hi, min_area) ==
    IF lo > hi THEN <<>>
    ELSE IF lo = hi
    THEN LET j == i0 + lo
         IN IF j <= n /\ pref[j] - pref[i0] >= min_area
            THEN <<i0, j, pref[j] - pref[i0]>>
            ELSE <<>>
    ELSE LET mid == (lo + hi) \div 2
             first == BestWindow(pref, n, i0, lo, mid, min_area)
             later == BestWindow(pref, n, i0, mid + 1, hi, min_area)
         IN IF first = <<>> THEN later
            ELSE IF later = <<>> THEN first
            ELSE IF later[3] > first[3] THEN later
            ELSE first

\* the loop over the lengths running one length too far
LastLengthPlus(HMAX) == HMAX + 1

\* the last length tried by `for L in range(HMIN, HMAX+1)`
LastLength(HMAX) == HMAX

\* the mask without the guard: range(i, min(len, j))
GuardMaskNoGuard(i, j, n) == i..(Min({n, j}) - 1)

\* the indices masked after selecting [i, j): range(max(0,i-12), min(len, j+12))
GuardMask(i, j, n) == Max({0, i - GuardHours})..(Min({n, j + GuardHours}) - 1)

\* one iteration of `while i0 is not None`; lp = [used, selected, i0]
SelectStep(lp, pref, n, HMIN, HMAX, min_area) ==
    IF lp.i0 = None THEN lp
    ELSE LET \* `if j > len(grid): break` ends the loop at the first length
             \* that does not fit
             fit == IF LastLength(HMAX) <= n - lp.i0 THEN LastLength(HMAX) ELSE n - lp.i0
             best == BestWindow(pref, n, lp.i0, HMIN, fit, min_area)
         IN IF best = <<>>
            THEN LET u == [lp.used EXCEPT ![lp.i0] = TRUE]
                 IN [used |-> u, selected |-> lp.selected, i0 |-> first_unused(u, lp.i0)]
            ELSE LET mask == GuardMask(best[1], best[2], n)
                     u == Tabulated([k \in DOMAIN lp.used |-> lp.used[k] \/ k \in mask])
                 IN [used |-> u,
                     selected |-> Append(lp.selected, <<best[1], best[2]>>),
                     i0 |-> first_unused(u, lp.i0)]

\* `count` iterations of the loop, by halves
RECURSIVE SelectLoop(_, _, _, _, _, _, _)
SelectLoop(lp, count, pref, n, HMIN, HMAX, min_area) ==
    IF count = 0 \/ lp.i0 = None THEN lp
    ELSE IF count = 1 THEN SelectStep(lp, pref, n, HMIN, HMAX, min_area)
    ELSE LET h == count \div 2
         IN SelectLoop(SelectLoop(lp, h, pref, n, HMIN, HMAX, min_area),
                       count - h, pref, n, HMIN, HMAX, min_area)

\* the selected index pairs (i, j), each the half-open grid range [i, j).
\* Every iteration marks at least index i0, so the loop ends within n rounds.
SelectedRanges(g, HMIN, HMAX, min_area) ==
    LET n == Size(g)
        used0 == Tabulated([k \in 0..(n - 1) |-> FALSE])
        lp0 == [used |-> used0, selected |-> <<>>, i0 |-> first_unused(used0, 0)]
    IN SelectLoop(lp0, n, PrefixSums(g), n, HMIN, HMAX, min_area).selected

\* Python list indexing: a negative index counts from the end
PyIndex(k, n) == IF k < 0 THEN n + k ELSE k

\* the returned pair for a selected [i, j): (grid[i][0], grid[j-1][0])
WindowOf(g, r) == [ws |-> g[r[1]].t, we |-> g[PyIndex(r[2] - 1, Size(g))].t]

\* select_integral_windows(grid, min_days, max_days, min_area), with
\* HMIN = int(min_days*24) and HMAX = int(max_days*24): the list `selected`
\* when the loop has ended, and the list returned
select_integral_windows(g, HMIN, HMAX, min_area) ==
    LET sel == SelectedRanges(g, HMIN, HMAX, min_area)
    IN [selected |-> sel, windows |-> [k \in 1..Len(sel) |-> WindowOf(g, sel[k])]]

(***************************************************************************)
(* Features, score and density grid (main, lines 208-244)                  *)
(***************************************************************************)
\* gens is the list of list_generations(): records [id, ts] ascending by ts.
\* gens, deltas and subset are TLA+ sequences: index k here is index k-1 in
\* the code.  deltas[k] = [lines, paths] is what git_lines_delta and the
\* closure path difference give for gens[k] against gens[k-1] (k >= 2).
Ids(gs) == {gs[k].id : k \in 1..Len(gs)}

\* sorted(arr)[idx] for a list of integers arr, idx counted from 0
SortedAt(arr, idx) ==
    CHOOSE x \in {arr[k] : k \in 1..Len(arr)} :
        /\ Cardinality({k \in 1..Len(arr) : arr[k] < x}) <= idx
        /\ idx < Cardinality({k \in 1..Len(arr) : arr[k] <= x})

\* normalize(values)[x] in thousandths: pct(x) with the 5th and 95th
\* percentiles v[int(0.05*(len-1))] and v[int(0.95*(len-1))]
normalize(values, x) ==
    LET n == Len(values)
        p5 == SortedAt(values, (5 * (n - 1)) \div 100)
        p95 == SortedAt(values, (95 * (n - 1)) \div 100)
    IN IF n = 1 THEN 0
       ELSE IF p95 = p5 THEN (IF x <= p5 THEN 0 ELSE 1000)
       ELSE Max({0, Min({1000, (1000 * (x - p5)) \div (p95 - p5)})})

\* score[gid] for gens[k], in thousandths
ScoreAt(gs, ds, k) ==
    IF k = 1 THEN BaseScore
    ELSE LET lines == [m \in 1..(Len(gs) - 1) |-> ds[m + 1].lines]
             paths == [m \in 1..(Len(gs) - 1) |-> ds[m + 1].paths]
         IN BaseScore
            + (LinesWeight * normalize(lines, ds[k].lines)
               + PathsWeight * normalize(paths, ds[k].paths)) \div 1000

Scores(gs, ds) == [k \in 1..Len(gs) |-> ScoreAt(gs, ds, k)]

\* 1000 * exp(-(h*h)/288) for h = 0, 1, 2, ... whole hours, sigma_hours = 12
\* (s2 = 2*12*12); the weight is below 0.0005 from 47 hours on
GaussTable ==
    <<1000, 997, 986, 969, 946, 917, 882, 844, 801, 755, 707, 657, 607, 556,
      506, 458, 411, 367, 325, 286, 249, 216, 186, 159, 135, 114, 96, 80, 66,
      54, 44, 36, 29, 23, 18, 14, 11, 9, 7, 5, 4, 3, 2, 2, 1, 1, 1>>

\* math.exp(-(dh*dh)/s2) in thousandths, dh taken in whole hours
Gauss(dsec) ==
    LET h == dsec \div HOUR
    IN IF h < Len(GaussTable) THEN GaussTable[h + 1] ELSE 0

\* dt.replace(minute=0, second=0, microsecond=0)
FloorHour(ts) == ts - (ts % HOUR)

\* kernel_smooth(points): the hourly grid from the first to the last floor
\* hour, grid[i] = (start + i hours, sum of sc * exp(...)) indexed from 0
kernel_smooth(gs, sc) ==
    IF Len(gs) = 0 THEN <<>>
    ELSE LET start == FloorHour(gs[1].ts)
             end == FloorHour(gs[Len(gs)].ts)
             hours == (end - start) \div HOUR + 1
             val(t) == SumSeq([k \in 1..Len(gs) |-> sc[k] * Gauss(Abs(gs[k].ts - t))],
                              1, Len(gs))
         IN [i \in 0..(hours - 1) |-> [t |-> start + i * HOUR, v |-> val(start + i * HOUR)]]

(***************************************************************************)
(* Tier rules (main, lines 246-333)                                        *)
(***************************************************************************)
\* kr = [keep, reasons]: the keep set and the reasons dict
\* keep.add(gid); reasons[gid] = r
ForceKeep(kr, gid, r) ==
    [keep |-> kr.keep \cup {gid},
     reasons |-> [g \in (DOMAIN kr.reasons) \cup {gid} |->
                     IF g = gid THEN r ELSE kr.reasons[g]]]

\* if gid not in keep: keep.add(gid); reasons[gid] = r
AddKeep(kr, gid, r) == IF gid \in kr.keep THEN kr ELSE ForceKeep(kr, gid, r)

\* AddKeep for each entry [id, r] of a list, in order
RECURSIVE AddKeeps(_, _)
AddKeeps(kr, items) ==
    IF items = <<>> THEN kr
    ELSE AddKeeps(AddKeep(kr, Head(items).id, Head(items).r), Tail(items))

\* lines 251-253: `if cur:` and `if prev:` (None is falsy, and so is 0)
KeepBooted(c, p) ==
    LET kr0 == [keep |-> {}, reasons |-> <<>>]
        kr1 == IF c # None /\ c # 0 THEN ForceKeep(kr0, c, "booted-current") ELSE kr0
    IN IF p # None /\ p # 0 THEN ForceKeep(kr1, p, "booted-previous") ELSE kr1

Now(gs) == gs[Len(gs)].ts

\* the <= 3 days rule with a strict comparison, (now - ts) < 3 days
KeepRecentStrict(kr, gs) ==
    LET recent == {gs[k].id : k \in {k \in 1..Len(gs) : Now(gs) - gs[k].ts < RecentDays * DAY}}
    IN [keep |-> kr.keep \cup recent,
        reasons |-> [g \in (DOMAIN kr.reasons) \cup recent |->
                        IF g \in recent THEN "<=3d" ELSE kr.reasons[g]]]

\* lines 255-258: (now - ts) <= 3 days
KeepRecent(kr, gs) ==
    LET recent == {gs[k].id : k \in {k \in 1..Len(gs) : Now(gs) - gs[k].ts <= RecentDays * DAY}}
    IN [keep |-> kr.keep \cup recent,
        reasons |-> [g \in (DOMAIN kr.reasons) \cup recent |->
                        IF g \in recent THEN "<=3d" ELSE kr.reasons[g]]]

\* 3 days < (now - ts) <= 10 days
InDailyTier(gs, k) ==
    /\ RecentDays * DAY < Now(gs) - gs[k].ts
    /\ Now(gs) - gs[k].ts <= DailyDays * DAY

\* ts.date(), as the day number
DateOf(ts) == ts \div DAY

\* lines 262-270: the last generation of each calendar day of the tier (the
\* first of those with the greatest timestamp); daily.values() in the order
\* the days were first met
DailyPicks(gs) ==
    LET tier == {k \in 1..Len(gs) : InDailyTier(gs, k)}
        pick(d) == Min({k \in tier : /\ DateOf(gs[k].ts) = d
                                      /\ \A m \in tier : DateOf(gs[m].ts) = d
                                                           => gs[m].ts <= gs[k].ts})
        days == SortedSeq({DateOf(gs[k].ts) : k \in tier})
    IN [x \in 1..Len(days) |-> [id |-> gs[pick(days[x])].id, r |-> "daily"]]

\* line 274: the generations of the 3-10 day tier
Subset(gs) == SelectSeq(gs, LAMBDA g : /\ RecentDays * DAY < Now(gs) - g.ts
                                      /\ Now(gs) - g.ts <= DailyDays * DAY)

\* the scan stopping at the first j with span >= 36 h, whatever its mean:
\* that j when its mean is <= 12 h, None otherwise
StretchEndFirstLong(sub, i) ==
    LET long == {j \in (i + 1)..Len(sub) : sub[j].ts - sub[i].ts >= StretchSpanHours * HOUR}
    IN IF long = {} THEN None
       ELSE IF sub[Min(long)].ts - sub[i].ts <= StretchMeanHours * HOUR * (Min(long) - i)
       THEN Min(long)
       ELSE None

\* lines 278-306 for anchor i: j runs upward from i+1 and the loop breaks at
\* the first j with span >= 36 h and mean = total/(j-i) <= 12 h; a j whose
\* span is long enough but whose mean is too large is passed over.
\* None when the inner loop ends without break.
StretchEnd(sub, i) ==
    LET ok(j) == /\ sub[j].ts - sub[i].ts >= StretchSpanHours * HOUR
                 /\ sub[j].ts - sub[i].ts <= StretchMeanHours * HOUR * (j - i)
        js == {j \in (i + 1)..Len(sub) : ok(j)}
    IN IF js = {} THEN None ELSE Min(js)

\* lines 292-298: the index in i..j nearest to first_ts + 24 h, the first one
\* on ties
StretchMid(sub, i, j) ==
    LET target == sub[i].ts + StretchMidHours * HOUR
        diff(k) == Abs(sub[k].ts - target)
    IN Min({k \in i..j : \A m \in i..j : diff(k) <= diff(m)})

\* lines 275-308: the scan `while i < len(subset)-1`; the result lists the
\* anchors visited and the stretches kept, [i, j, mid]
RECURSIVE ProdScan(_, _, _)
ProdScan(sub, i, acc) ==
    IF Len(sub) < 2 \/ i >= Len(sub) THEN acc
    ELSE LET j == StretchEnd(sub, i)
             seen == [acc EXCEPT !.anchors = Append(@, i)]
         IN IF j = None
            THEN ProdScan(sub, i + 1, seen)
            ELSE ProdScan(sub, j,
                          [seen EXCEPT !.kept =
                              Append(@, [i |-> i, j |-> j, mid |-> StretchMid(sub, i, j)])])

ProductiveStretches(sub) == ProdScan(sub, 1, [anchors |-> <<>>, kept |-> <<>>])

\* lines 299-303 for every stretch kept, in order
RECURSIVE KeepStretches(_, _, _)
KeepStretches(kr, sub, kept) ==
    IF kept = <<>> THEN kr
    ELSE LET s == Head(kept)
         IN KeepStretches(
                AddKeeps(kr, <<[id |-> sub[s.i].id, r |-> "prod-first"],
                               [id |-> sub[s.mid].id, r |-> "prod-+24h"],
                               [id |-> sub[s.j].id, r |-> "prod-last"]>>),
                sub, Tail(kept))

\* grid_tail without the cutoff: the whole grid
GridTailAll(g, gs) == g

\* line 313: grid_tail, the grid hours t <= cutoff (a prefix of the grid)
GridTail(g, gs) ==
    LET cutoff == Now(gs) - DailyDays * DAY
        m == Cardinality({i \in DOMAIN g : g[i].t <= cutoff})
    IN Tabulated([i \in 0..(m - 1) |-> g[i]])

\* line 315
ClumpWindows(g, gs) ==
    LET grid_tail == GridTail(g, gs)
    IN IF Size(grid_tail) = 0 THEN [selected |-> <<>>, windows |-> <<>>]
       ELSE select_integral_windows(grid_tail, ClumpMinDays * 24, ClumpMaxDays * 24, 0)

\* lines 317-322: the last generation inside each window
RECURSIVE KeepClumps(_, _, _)
KeepClumps(kr, gs, ws) ==
    IF ws = <<>> THEN kr
    ELSE LET w == Head(ws)
             cand == {k \in 1..Len(gs) : w.ws <= gs[k].ts /\ gs[k].ts <= w.we}
         IN KeepClumps(IF cand = {} THEN kr
                       ELSE AddKeep(kr, gs[Max(cand)].id, "clump-longterm"),
                       gs, Tail(ws))

\* days before the first of each month of a year of 365 days; the model's
\* calendar starts on 2025-01-01 and stays before 2028
MonthStarts == <<0, 31, 59, 90, 120, 151, 181, 212, 243, 273, 304, 334>>
\* month_key(dt) = dt.year*100 + dt.month
month_key(ts) ==
    LET d == DateOf(ts)
        doy == d % 365
    IN (2025 + d \div 365) * 100 + Cardinality({m \in 1..12 : MonthStarts[m] <= doy})

\* lines 325-333: the last generation of each month among those older than
\* 90 days
MonthlyPicks(gs) ==
    LET old == {k \in 1..Len(gs) : Now(gs) - gs[k].ts > MonthlyDays * DAY}
        pick(mk) == Min({k \in old : /\ month_key(gs[k].ts) = mk
                                      /\ \A m \in old : month_key(gs[m].ts) = mk
                                                          => gs[m].ts <= gs[k].ts})
        months == SortedSeq({month_key(gs[k].ts) : k \in old})
    IN [x \in 1..Len(months) |-> [id |-> gs[pick(months[x])].id, r |-> "monthly"]]

\* lines 246-333: keep and reasons after all tier rules
TierKeeps(gs, c, p, str, ws) ==
    LET kr1 == KeepRecent(KeepBooted(c, p), gs)
        kr2 == AddKeeps(kr1, DailyPicks(gs))
        kr3 == KeepStretches(kr2, Subset(gs), str.kept)
        kr4 == KeepClumps(kr3, gs, ws)
    IN AddKeeps(kr4, MonthlyPicks(gs))

(***************************************************************************)
(* State file (load_state, save_state)                                     *)
(***************************************************************************)
\* A JSON document is a record with the set of keys it holds; the field of
\* an absent key is not read.  gens maps id -> [ts, score], kept maps
\* id -> reason, deleted is a list of ids, pinned is the set of pinned ids
\* (the keys of state["pinned"]), meta is the last_run mark.
AllKeys == {"gens", "kept", "deleted", "pinned", "meta"}

\* line 183: {"gens":{}, "kept":{}, "deleted":[], "pinned":{}, "meta":{}}
EmptyDoc ==
    [keys |-> AllKeys, gens |-> <<>>, kept |-> <<>>, deleted |-> <<>>,
     pinned |-> {}, meta |-> "none"]

\* the file at the state path: exists, parses as JSON, and its document
NoFile == [exists |-> FALSE, parse_ok |-> FALSE, doc |-> EmptyDoc]
BadFile == [exists |-> TRUE, parse_ok |-> FALSE, doc |-> EmptyDoc]
DocFile(d) == [exists |-> TRUE, parse_ok |-> TRUE, doc |-> d]

\* load_state raises when the file exists and json.load cannot parse it
LoadRaises(f) == f.exists /\ ~f.parse_ok
\* load_state(path) when it returns
load_state(f) == IF f.exists THEN f.doc ELSE EmptyDoc
\* save_state(path, data): the file is replaced by the document
save_state(d) == DocFile(d)

\* before load_state: no document in memory
Unloaded == [EmptyDoc EXCEPT !.keys = {}, !.meta = "unloaded"]

\* no direct call of select_integral_windows
NoSelArgs == [HMIN |-> 0, HMAX |-> 0, min_area |-> 0]

\* state.get("pinned", {})
PinnedOf(st) == IF "pinned" \in st.keys THEN st.pinned ELSE {}

\* booted_generations(): prev = max(current-1, 1) when current is known
BootedPrev(c) == IF c = None THEN None ELSE Max({c - 1, 1})

(***************************************************************************)
(* main, lines 336-356                                                     *)
(***************************************************************************)
\* lines 336-339: state["gens"][str(gid)] gets ts and score
RecordGens(st, gs, sc) ==
    [st EXCEPT !.gens = [g \in (DOMAIN st.gens) \cup Ids(gs) |->
        IF g \in Ids(gs)
        THEN LET k == CHOOSE k \in 1..Len(gs) : gs[k].id = g
             IN [ts |-> gs[k].ts, score |-> sc[k]]
        ELSE st.gens[g]]]

\* lines 340-341 left out: pinned ids are not added to keep
KeepPinnedSkipped(kr, gs, st) == kr

\* lines 340-341: every listed generation that is pinned is kept as "pinned"
KeepPinned(kr, gs, st) ==
    LET pinned == Ids(gs) \cap PinnedOf(st)
    IN [keep |-> kr.keep \cup pinned,
        reasons |-> [g \in (DOMAIN kr.reasons) \cup pinned |->
                        IF g \in pinned THEN "pinned" ELSE kr.reasons[g]]]

\* lines 344-349 and 354: the ids not kept, without cur and prev, sorted
PlanDelete(gs, kp, c, p) ==
    SortedSeq({g \in Ids(gs) : g \notin kp /\ g # c /\ g # p})

\* line 352: state["kept"] = {str(g): {"reason": reasons.get(g, "")}}
KeptMap(kp, rs) == [g \in kp |-> IF g \in DOMAIN rs THEN rs[g] ELSE ""]

(***************************************************************************)
(* One run of main                                                         *)
(***************************************************************************)
\* line 199 with the default forgotten
parse_args_as_given(a) == a

\* lines 198-199: `if not args.apply: args.dry_run = True`
parse_args(a) == [a EXCEPT !.dry_run = a.dry_run \/ ~a.apply]

\* lines 192-206 with no generation listed: "No generations found."
StartEmpty ==
    /\ pc = "start"
    /\ gens = <<>>
    /\ args' = parse_args(args)
    /\ pc' = "done"
    /\ UNCHANGED <<file0, gens, deltas, cur, prev, file, state, score, grid, keep, reasons,
                   stretches, windows, plan_delete, delete_calls, selArgs, selected>>

\* lines 192-206: booted_generations() and load_state() return
StartLoad ==
    /\ pc = "start"
    /\ gens # <<>>
    /\ ~LoadRaises(file)
    /\ args' = parse_args(args)
    /\ prev' = BootedPrev(cur)
    /\ state' = load_state(file)
    /\ pc' = "features"
    /\ UNCHANGED <<file0, gens, deltas, cur, file, score, grid, keep, reasons,
                   stretches, windows, plan_delete, delete_calls, selArgs, selected>>

\* line 206: json.load raises in load_state and the run ends with the error
StartCorrupt ==
    /\ pc = "start"
    /\ gens # <<>>
    /\ LoadRaises(file)
    /\ args' = parse_args(args)
    /\ prev' = BootedPrev(cur)
    /\ pc' = "error"
    /\ UNCHANGED <<file0, gens, deltas, cur, file, state, score, grid, keep, reasons,
                   stretches, windows, plan_delete, delete_calls, selArgs, selected>>

\* lines 208-244
Features ==
    /\ pc = "features"
    /\ score' = Scores(gens, deltas)
    /\ grid' = kernel_smooth(gens, score')
    /\ pc' = "tiers"
    /\ UNCHANGED <<file0, args, gens, deltas, cur, prev, file, state, keep, reasons,
                   stretches, windows, plan_delete, delete_calls, selArgs, selected>>

\* lines 246-333
Tiers ==
    /\ pc = "tiers"
    /\ stretches' = ProductiveStretches(Subset(gens))
    /\ LET r == ClumpWindows(grid, gens)
       IN selected' = r.selected /\ windows' = r.windows
    /\ LET kr == TierKeeps(gens, cur, prev, stretches', windows')
       IN keep' = kr.keep /\ reasons' = kr.reasons
    /\ pc' = "record"
    /\ UNCHANGED <<file0, args, gens, deltas, cur, prev, file, state, score, grid,
                   plan_delete, delete_calls, selArgs>>

\* lines 336-341
Record ==
    /\ pc = "record"
    /\ "gens" \in state.keys
    /\ state' = RecordGens(state, gens, score)
    /\ LET kr == KeepPinned([keep |-> keep, reasons |-> reasons], gens, state)
       IN keep' = kr.keep /\ reasons' = kr.reasons
    /\ pc' = "compile"
    /\ UNCHANGED <<file0, args, gens, deltas, cur, prev, file, score, grid,
                   stretches, windows, plan_delete, delete_calls, selArgs, selected>>

\* line 337: state["gens"] raises KeyError
RecordKeyError ==
    /\ pc = "record"
    /\ "gens" \notin state.keys
    /\ pc' = "error"
    /\ UNCHANGED <<file0, args, gens, deltas, cur, prev, file, state, score, grid, keep,
                   reasons, stretches, windows, plan_delete, delete_calls, selArgs, selected>>

\* lines 343-356
Compile ==
    /\ pc = "compile"
    /\ plan_delete' = PlanDelete(gens, keep, cur, prev)
    /\ state' = [state EXCEPT !.keys = @ \cup {"kept"}, !.kept = KeptMap(keep, reasons)]
    /\ pc' = "save"
    /\ UNCHANGED <<file0, args, gens, deltas, cur, prev, file, score, grid, keep, reasons,
                   stretches, windows, delete_calls, selArgs, selected>>

\* lines 359-360
Save ==
    /\ pc = "save"
    /\ "meta" \in state.keys
    /\ state' = [state EXCEPT !.meta = "now"]
    /\ file' = save_state(state')
    /\ pc' = "act"
    /\ UNCHANGED <<file0, args, gens, deltas, cur, prev, score, grid, keep, reasons,
                   stretches, windows, plan_delete, delete_calls, selArgs, selected>>

\* line 359: state["meta"] raises KeyError
SaveKeyError ==
    /\ pc = "save"
    /\ "meta" \notin state.keys
    /\ pc' = "error"
    /\ UNCHANGED <<file0, args, gens, deltas, cur, prev, file, state, score, grid, keep,
                   reasons, stretches, windows, plan_delete, delete_calls, selArgs, selected>>

\* lines 362-364
DryRunReturn ==
    /\ pc = "act"
    /\ args.dry_run
    /\ pc' = "done"
    /\ UNCHANGED <<file0, args, gens, deltas, cur, prev, file, state, score, grid, keep,
                   reasons, stretches, windows, plan_delete, delete_calls, selArgs, selected>>

\* lines 366 and 381 with an empty plan
NothingToDelete ==
    /\ pc = "act"
    /\ ~args.dry_run
    /\ plan_delete = <<>>
    /\ pc' = "done"
    /\ UNCHANGED <<file0, args, gens, deltas, cur, prev, file, state, score, grid, keep,
                   reasons, stretches, windows, plan_delete, delete_calls, selArgs, selected>>

\* lines 366-375: nix-env --delete-generations returns rc
DeleteGenerations ==
    /\ pc = "act"
    /\ ~args.dry_run
    /\ plan_delete # <<>>
    /\ \E rc \in {0, 1} :
         delete_calls' = Append(delete_calls, [ids |-> plan_delete, rc |-> rc])
    /\ pc' = "append"
    /\ UNCHANGED <<file0, args, gens, deltas, cur, prev, file, state, score, grid, keep,
                   reasons, stretches, windows, plan_delete, selArgs, selected>>

\* lines 376-381
AppendDeleted ==
    /\ pc = "append"
    /\ "deleted" \in load_state(file).keys
    /\ state' = [load_state(file) EXCEPT !.deleted = @ \o plan_delete]
    /\ file' = save_state(state')
    /\ pc' = "done"
    /\ UNCHANGED <<file0, args, gens, deltas, cur, prev, score, grid, keep, reasons,
                   stretches, windows, plan_delete, delete_calls, selArgs, selected>>

\* line 378: state["deleted"] raises KeyError
AppendKeyError ==
    /\ pc = "append"
    /\ "deleted" \notin load_state(file).keys
    /\ state' = load_state(file)
    /\ pc' = "error"
    /\ UNCHANGED <<file0, args, gens, deltas, cur, prev, file, score, grid, keep, reasons,
                   stretches, windows, plan_delete, delete_calls, selArgs, selected>>

Next ==
    \/ StartEmpty
    \/ StartLoad
    \/ StartCorrupt
    \/ Features
    \/ Tiers
    \/ Record
    \/ RecordKeyError
    \/ Compile
    \/ Save
    \/ SaveKeyError
    \/ DryRunReturn
    \/ NothingToDelete
    \/ DeleteGenerations
    \/ AppendDeleted
    \/ AppendKeyError

(***************************************************************************)
(* Runs over bounded generation lists                                       *)
(***************************************************************************)
\* most generations listed
MaxGens == 4
\* hours between one generation and the next
GapChoices == {1, 100, 300}
\* timestamp of the first generation: 2025-01-01 22:30:59
FirstTs == 22 * HOUR + 1859

\* the list with ids 1..n, the first at time t0, then the given gaps (hours)
GensOf(t0, gaps) ==
    [k \in 1..(Len(gaps) + 1) |->
        [id |-> k, ts |-> t0 + HOUR * SumSeq(gaps, 1, k - 1)]]

\* raw deltas: all zero, or mixed (some zero, some changes)
DeltaProfile(p, n) ==
    [k \in 1..n |-> IF p = "zero" THEN [lines |-> 0, paths |-> 0]
                    ELSE [lines |-> 10 * (k % 3), paths |-> k % 2]]

\* state files met at start: none, unparseable, documents lacking keys, and
\* whole documents with and without pinned ids and deletion history
InitialFiles ==
    {NoFile, BadFile}
    \cup {DocFile([EmptyDoc EXCEPT !.keys = ks]) :
             ks \in {{}, AllKeys \ {"meta"}, AllKeys \ {"deleted"}}}
    \cup {DocFile([EmptyDoc EXCEPT !.meta = "before", !.pinned = {1},
                                   !.deleted = <<90>>,
                                   !.gens = (90 :> [ts |-> 0, score |-> BaseScore]),
                                   !.kept = (90 :> "daily")])}

\* command lines: (none), --apply, --apply --dry-run
ArgChoices ==
    {[apply |-> FALSE, dry_run |-> FALSE], [apply |-> TRUE, dry_run |-> FALSE],
     [apply |-> TRUE, dry_run |-> TRUE]}

InitRun ==
    /\ pc = "start"
    /\ args \in ArgChoices
    /\ file0 \in InitialFiles
    /\ file = file0
    /\ prev = None
    /\ state = Unloaded
    /\ score = <<>>
    /\ grid = <<>>
    /\ keep = {}
    /\ reasons = <<>>
    /\ stretches = [anchors |-> <<>>, kept |-> <<>>]
    /\ windows = <<>>
    /\ plan_delete = <<>>
    /\ delete_calls = <<>>
    /\ selArgs = NoSelArgs
    /\ selected = <<>>

Init ==
    /\ InitRun
    /\ \/ gens = <<>> /\ deltas = <<>>
       \/ \E n \in 1..MaxGens : \E gaps \in [1..(n - 1) -> GapChoices] :
            /\ gens = GensOf(FirstTs, gaps)
            /\ deltas = DeltaProfile("mixed", n)
    /\ cur \in {None, 2}

Spec == Init /\ [][Next]_vars

(***************************************************************************)
(* Runs over regular series of generations                                  *)
(***************************************************************************)
\* n generations spaced gap hours apart
RegularSeries ==
    {[n |-> 0, gap |-> 0], [n |-> 15, gap |-> 6], [n |-> 40, gap |-> 24], [n |-> 30, gap |-> 8],
     [n |-> 5, gap |-> 720]}
\* time of day of the first generation, in seconds after 00:00:00 UTC
StartOffsets == {0, 1859, 18 * HOUR, 22 * HOUR + 1859}

SeriesGens(sr, t0) ==
    IF sr.n = 0 THEN <<>> ELSE GensOf(t0, [k \in 1..(sr.n - 1) |-> sr.gap])

InitSeries ==
    /\ InitRun
    /\ \E sr \in RegularSeries, t0 \in StartOffsets :
         /\ gens = SeriesGens(sr, t0)
         /\ deltas = DeltaProfile("zero", sr.n)
    /\ cur \in {None, 2}

SpecSeries == InitSeries /\ [][Next]_vars

(***************************************************************************)
(* The window selector on its own: bounded grids and length limits          *)
(***************************************************************************)
\* longest grid, in hours
MaxGridLen == 27
\* largest window length limit, in hours: int(min_days*24) and
\* int(max_days*24) range over 0..MaxWinHours with min_days <= max_days
MaxWinHours == 2
\* density levels of a grid hour
DensityLevels == {0, 1}

\* an hourly grid starting at time 0 with the given densities
HourlyGrid(vs) == [k \in DOMAIN vs |-> [t |-> k * HOUR, v |-> vs[k]]]

\* densities of n hours in up to three level stretches: a for x hours, then
\* b for y hours, then c
ThreeLevels(n, x, y, a, b, c) ==
    [k \in 0..(n - 1) |-> IF k < x THEN a ELSE IF k < x + y THEN b ELSE c]

Idle ==
    /\ args = [apply |-> FALSE, dry_run |-> FALSE]
    /\ deltas = <<>>
    /\ cur = None
    /\ prev = None
    /\ file0 = NoFile
    /\ file = NoFile
    /\ state = Unloaded
    /\ score = <<>>
    /\ keep = {}
    /\ reasons = <<>>
    /\ stretches = [anchors |-> <<>>, kept |-> <<>>]
    /\ plan_delete = <<>>
    /\ delete_calls = <<>>
    /\ selected = <<>>

InitSel ==
    /\ Idle
    /\ pc = "sel_call"
    /\ gens = <<>>
    /\ \E n \in 0..MaxGridLen : \E x \in 0..n : \E y \in 0..(n - x) :
         \E a \in DensityLevels, b \in DensityLevels, c \in DensityLevels :
             grid = HourlyGrid(ThreeLevels(n, x, y, a, b, c))
    /\ \E lo \in 0..MaxWinHours, hi \in 0..MaxWinHours :
         /\ lo <= hi
         /\ selArgs = [HMIN |-> lo, HMAX |-> hi, min_area |-> 0]
    /\ windows = <<>>

CallSelect ==
    /\ pc = "sel_call"
    /\ LET r == select_integral_windows(grid, selArgs.HMIN, selArgs.HMAX, selArgs.min_area)
       IN selected' = r.selected /\ windows' = r.windows
    /\ pc' = "sel_done"
    /\ UNCHANGED <<file0, args, gens, deltas, cur, prev, file, state, score, grid, keep,
                   reasons, stretches, plan_delete, delete_calls, selArgs>>

NextSel == CallSelect

SpecSel == InitSel /\ [][NextSel]_vars

(***************************************************************************)
(* The productive-stretch scan on its own: bounded 3-10 day tiers           *)
(***************************************************************************)
\* most generations in the tier
MaxSubset == 5
\* hours between one generation of the tier and the next
StretchGaps == {1, 12, 36}
\* hours from the last generation of the tier to the newest generation:
\* just over 3 days
NewestGap == RecentDays * 24 + 1

\* the tier's generations followed by the newest one, which sets `now`
InitStretch ==
    /\ Idle
    /\ pc = "scan_call"
    /\ \E n \in 1..MaxSubset : \E gaps \in [1..(n - 1) -> StretchGaps] :
         /\ SumSeq(gaps, 1, n - 1) + NewestGap <= DailyDays * 24
         /\ gens = GensOf(FirstTs, gaps \o <<NewestGap>>)
    /\ grid = <<>>
    /\ windows = <<>>
    /\ selArgs = NoSelArgs

CallScan ==
    /\ pc = "scan_call"
    /\ stretches' = ProductiveStretches(Subset(gens))
    /\ pc' = "scan_done"
    /\ UNCHANGED <<file0, args, gens, deltas, cur, prev, file, state, score, grid, keep,
                   reasons, windows, plan_delete, delete_calls, selArgs, selected>>

NextStretch == CallScan

SpecStretch == InitStretch /\ [][NextStretch]_vars

(***************************************************************************)
(* Properties                                                              *)
(***************************************************************************)
\* the plan has been compiled (lines 343-356 are done)
Planned == pc \in {"save", "act", "append", "done"}

\* ids protected in this run: booted current, booted previous, pinned
ProtectedIds == {cur, prev} \cup PinnedOf(state)

\* the keep set of the tier rules alone, without booted and pinned ids
RuleKeeps == TierKeeps(gens, None, None, stretches, windows).keep

\* C1: no booted-current, booted-previous or pinned id is in the delete list,
\* nor in the ids handed to nix-env --delete-generations, even when no tier
\* rule keeps it.
C1_ProtectedNeverDeleted ==
    Planned =>
        /\ \A k \in 1..Len(plan_delete) : plan_delete[k] \notin ProtectedIds
        /\ \A c \in 1..Len(delete_calls) : \A k \in 1..Len(delete_calls[c].ids) :
               delete_calls[c].ids[k] \notin ProtectedIds

\* a finished run with a non-empty delete list in which a listed protected id
\* is kept by no tier rule
C1_Witness ==
    /\ pc = "done"
    /\ plan_delete # <<>>
    /\ \E g \in Ids(gens) \cap ProtectedIds : g \notin RuleKeeps

\* the deleted history a state file holds
DeletedOf(f) ==
    IF f.exists /\ f.parse_ok /\ "deleted" \in f.doc.keys THEN f.doc.deleted ELSE <<>>

\* the file holds ts and score of every listed generation and the kept map
RecordsWritten ==
    /\ file.exists /\ file.parse_ok
    /\ {"gens", "kept"} \subseteq file.doc.keys
    /\ \A k \in 1..Len(gens) :
         /\ gens[k].id \in DOMAIN file.doc.gens
         /\ file.doc.gens[gens[k].id] = [ts |-> gens[k].ts, score |-> score[k]]
    /\ file.doc.kept = KeptMap(keep, reasons)
    /\ \A g \in keep : file.doc.kept[g] # ""

\* the command line asks for a plan only: no --apply, or --dry-run
PlanOnly == ~args.apply \/ args.dry_run

\* C2: in a plan-only run nix-env --delete-generations is never called and
\* the deleted history in the state file stays what it was at the start; when
\* the run over a non-empty generation list returns, the file holds the
\* ts/score records and the kept map with reasons.
C2_DryRunWritesRecordsOnly ==
    PlanOnly =>
        /\ delete_calls = <<>>
        /\ DeletedOf(file) = DeletedOf(file0)
        /\ (pc = "done" /\ gens # <<>>) => RecordsWritten

\* a plan-only run that planned deletions, over a file with history, returned
C2_Witness ==
    /\ PlanOnly
    /\ pc = "done"
    /\ plan_delete # <<>>
    /\ DeletedOf(file0) # <<>>
    /\ file # file0

\* C3: the deleted history in the state file is extended only after a
\* successful nix-env --delete-generations; a failed or skipped deletion
\* leaves it unchanged.
C3_HistoryOnlyAfterSuccess ==
    (DeletedOf(file) # DeletedOf(file0)) =>
        /\ delete_calls # <<>>
        /\ delete_calls[Len(delete_calls)].rc = 0

\* the state file found at start is unreadable or lacks expected keys
CorruptAtStart == file0.exists /\ (~file0.parse_ok \/ file0.doc.keys # AllKeys)

\* C9: a run over an unreadable or malformed state file does not end in an
\* error (it plans from an empty state).
C9_CorruptStateTolerated == CorruptAtStart => pc # "error"

\* grid hours (indices) inside a returned window, ends included
GridHours(w) == {k \in DOMAIN grid : w.ws <= grid[k].t /\ grid[k].t <= w.we}

\* C4: the returned windows are pairwise disjoint (no grid hour in two of
\* them) and come in ascending start order; an empty grid gives no window.
C4_WindowsDisjointAscending ==
    pc = "sel_done" =>
        /\ Size(grid) = 0 => windows = <<>>
        /\ \A a \in 1..Len(windows) : \A b \in 1..Len(windows) :
             a < b => /\ GridHours(windows[a]) \cap GridHours(windows[b]) = {}
                      /\ windows[a].ws < windows[b].ws

\* grid hours of the selected range [i, j)
RangeHours(r) == {k \in DOMAIN grid : r[1] <= k /\ k < r[2]}

\* grid hours of a selected range widened by the guard band on both sides,
\* [i - 12 h, j + 12 h), clamped to the grid
WidenedHours(r) ==
    {k \in DOMAIN grid : r[1] - GuardHours <= k /\ k < r[2] + GuardHours}

\* C5 as stated, for minDays of at least one hour: end - start of every
\* window is at least minDays*24 hours and at most maxDays*24 hours.
C5_LengthAsStated ==
    (pc = "sel_done" /\ selArgs.HMIN >= 1) =>
        \A a \in 1..Len(windows) :
            /\ windows[a].we - windows[a].ws >= selArgs.HMIN * HOUR
            /\ windows[a].we - windows[a].ws <= selArgs.HMAX * HOUR

\* C5 amended: every window is made from a selected range [i0, i0 + L) whose
\* length L, counted in hourly grid points, lies between minDays*24 and
\* maxDays*24; its start is the time of grid point i0 and, for L >= 1, its
\* end is the time of the last grid point of the range, so that end - start
\* is L - 1 hours: between minDays*24 - 1 and maxDays*24 - 1 hours.
C5_LengthInGridPoints ==
    pc = "sel_done" =>
        /\ Len(windows) = Len(selected)
        /\ \A a \in 1..Len(windows) :
             LET L == selected[a][2] - selected[a][1]
             IN /\ selArgs.HMIN <= L /\ L <= selArgs.HMAX
                /\ windows[a].ws = grid[selected[a][1]].t
                /\ L >= 1 => /\ windows[a].we - windows[a].ws = (L - 1) * HOUR
                             /\ Cardinality(GridHours(windows[a])) = L

\* a window of the shortest length, at least one hour, that ends at the last
\* grid hour, where longer lengths were allowed
C5_Witness ==
    /\ pc = "sel_done"
    /\ selArgs.HMIN >= 1
    /\ selArgs.HMAX > selArgs.HMIN
    /\ \E a \in 1..Len(windows) :
         /\ windows[a].we = grid[Size(grid) - 1].t
         /\ windows[a].we - windows[a].ws = (selArgs.HMIN - 1) * HOUR

\* C6 as stated, for minDays of at least one hour: the selected ranges
\* widened by the guard band are pairwise disjoint.
C6_WidenedDisjointAsStated ==
    (pc = "sel_done" /\ selArgs.HMIN >= 1) =>
        \A a \in 1..Len(selected) : \A b \in 1..Len(selected) :
            a # b => WidenedHours(selected[a]) \cap WidenedHours(selected[b]) = {}

\* C6 amended: the widened range of a selected window holds no grid hour of
\* another selected window (two windows are at least 12 grid hours apart);
\* the guard bands of neighbouring windows may share grid hours.
C6_WidenedClearOfOthers ==
    pc = "sel_done" =>
        \A a \in 1..Len(selected) : \A b \in 1..Len(selected) :
            a # b => WidenedHours(selected[a]) \cap RangeHours(selected[b]) = {}

\* two windows of at least one hour, exactly one guard band apart
C6_Witness ==
    /\ pc = "sel_done"
    /\ Len(selected) >= 2
    /\ selected[1][2] > selected[1][1]
    /\ selected[2][2] > selected[2][1]
    /\ selected[2][1] = selected[1][2] + GuardHours

\* the run is over n generations spaced gap hours apart with zero deltas,
\* none of them booted or pinned
SeriesRun(n, gap) ==
    /\ Len(gens) = n
    /\ \A k \in 1..(n - 1) : gens[k + 1].ts - gens[k].ts = gap * HOUR
    /\ \A k \in 1..n : deltas[k] = [lines |-> 0, paths |-> 0]
    /\ Ids(gens) \cap ProtectedIds = {}

\* C7 as stated: all 15 snapshots spaced 6 hours apart are kept, each by the
\* age <= 3 days rule, and the delete list is empty.
C7_AllRecentAsStated ==
    (pc = "done" /\ SeriesRun(15, 6)) =>
        /\ Ids(gens) \subseteq keep
        /\ \A g \in Ids(gens) : reasons[g] = "<=3d"
        /\ plan_delete = <<>>

\* C7 amended: the 13 newest snapshots (age <= 72 h) are kept by the age
\* <= 3 days rule; the two oldest (ages 78 h and 84 h) fall in the 3-10 day
\* tier: the second oldest is kept by the daily rule, and the oldest is kept
\* (daily) only when it falls on an earlier UTC day than the second oldest,
\* otherwise it is the one id of the delete list.
C7_ThirteenRecentTwoDaily ==
    (pc = "done" /\ SeriesRun(15, 6)) =>
        /\ \A k \in 3..15 : gens[k].id \in keep /\ reasons[gens[k].id] = "<=3d"
        /\ gens[2].id \in keep /\ reasons[gens[2].id] = "daily"
        /\ IF DateOf(gens[1].ts) # DateOf(gens[2].ts)
           THEN /\ gens[1].id \in keep /\ reasons[gens[1].id] = "daily"
                /\ plan_delete = <<>>
           ELSE /\ gens[1].id \notin keep
                /\ plan_delete = <<gens[1].id>>

\* the 15 x 6 h run ended with the oldest snapshot in the delete list
C7_Witness ==
    /\ pc = "done"
    /\ SeriesRun(15, 6)
    /\ plan_delete = <<gens[1].id>>

\* ids of the kept generations older than 10 days
OldKeeps == {gens[k].id : k \in {k \in 1..Len(gens) :
                 Now(gens) - gens[k].ts > DailyDays * DAY /\ gens[k].id \in keep}}

\* C8 as stated: of 40 daily snapshots those older than 10 days are reduced
\* to between 4 and 6 keeps.
C8_FourToSixAsStated ==
    (pc = "done" /\ SeriesRun(40, 24)) =>
        /\ Cardinality(OldKeeps) >= 4
        /\ Cardinality(OldKeeps) <= 6

\* the last generation inside a window, 0 for none
LastIn(w) ==
    LET cand == {k \in 1..Len(gens) : w.ws <= gens[k].ts /\ gens[k].ts <= w.we}
    IN IF cand = {} THEN 0 ELSE gens[Max(cand)].id

\* C8 amended: select_integral_windows returns 3 windows over the grid hours
\* at or before now - 10 days (10 days, 10 days and the rest, 12 guard hours
\* apart), and the snapshots older than 10 days are reduced to the latest
\* snapshot of each window that is older than 10 days: 3 keeps, or 2 when
\* the first snapshot is on a whole hour (the third window then ends on the
\* snapshot aged exactly 10 days).
C8_ThreeWindows ==
    (pc = "done" /\ SeriesRun(40, 24)) =>
        /\ Len(windows) = 3
        /\ OldKeeps = {LastIn(windows[a]) : a \in 1..3}
                         \ {gens[k].id : k \in {k \in 1..40 :
                                Now(gens) - gens[k].ts <= DailyDays * DAY}}
        /\ Cardinality(OldKeeps) = (IF gens[1].ts % HOUR = 0 THEN 2 ELSE 3)
        /\ \A g \in OldKeeps : reasons[g] = "clump-longterm"

\* the 40 x 24 h run ended with three clump keeps
C8_Witness ==
    /\ pc = "done"
    /\ SeriesRun(40, 24)
    /\ Cardinality(OldKeeps) = 3

\* the least index after i whose span from i is at least 36 h, 0 for none
FirstLongSpan(sub, i) ==
    LET js == {j \in (i + 1)..Len(sub) : sub[j].ts - sub[i].ts >= StretchSpanHours * HOUR}
    IN IF js = {} THEN 0 ELSE Min(js)

\* the indices after i with span >= 36 h and mean inter-arrival <= 12 h
DenseEnds(sub, i) ==
    {j \in (i + 1)..Len(sub) :
        /\ sub[j].ts - sub[i].ts >= StretchSpanHours * HOUR
        /\ sub[j].ts - sub[i].ts <= StretchMeanHours * HOUR * (j - i)}

\* C10 as stated: every stretch kept for anchor i ends at the smallest index
\* j > i with ts(j) - ts(i) >= 36 h.
C10_EndsAtFirstLongSpanAsStated ==
    pc = "scan_done" =>
        \A x \in 1..Len(stretches.kept) :
            stretches.kept[x].j = FirstLongSpan(Subset(gens), stretches.kept[x].i)

\* C10 amended: an anchor i visited by the scan produces keeps exactly when
\* some j > i has span >= 36 h and mean (ts(j) - ts(i)) / (j - i) <= 12 h,
\* and the stretch ends at the smallest such j, which need not be the
\* smallest j with span >= 36 h; the scan starts at the first snapshot and
\* resumes at j after a kept stretch, at i + 1 otherwise.
C10_EndsAtFirstDenseSpan ==
    pc = "scan_done" =>
        LET sub == Subset(gens)
            an == stretches.anchors
            kp == stretches.kept
            keptAt(i) == {x \in 1..Len(kp) : kp[x].i = i}
        IN /\ \A x \in 1..Len(kp) : \E y \in 1..Len(an) : an[y] = kp[x].i
           /\ \A y \in 1..Len(an) :
                IF DenseEnds(sub, an[y]) = {}
                THEN /\ keptAt(an[y]) = {}
                     /\ y < Len(an) => an[y + 1] = an[y] + 1
                ELSE /\ \E x \in keptAt(an[y]) : kp[x].j = Min(DenseEnds(sub, an[y]))
                     /\ Cardinality(keptAt(an[y])) = 1
                     /\ y < Len(an) => an[y + 1] = Min(DenseEnds(sub, an[y]))
           /\ Len(sub) >= 2 => (Len(an) >= 1 /\ an[1] = 1)

\* a kept stretch that ends after the first index with span >= 36 h
C10_Witness ==
    /\ pc = "scan_done"
    /\ \E x \in 1..Len(stretches.kept) :
         stretches.kept[x].j > FirstLongSpan(Subset(gens), stretches.kept[x].i)

====
